---- MODULE Spec2Model ----
(***************************************************************************)
(* Model of the model-failover pool of the LLM chat relay                  *)
(* (src/05_llm-api/main.py): ModelState, ModelPool, GroqClient and the     *)
(* FastAPI endpoints that drive them.                                      *)
(*                                                                         *)
(* Spec serves one HTTP request at a time.  The clock (time.time()) may    *)
(* advance between requests and while a chat request is blocked in its     *)
(* upstream call.                                                          *)
(***************************************************************************)
EXTENDS Integers, Sequences, FiniteSets, TLC

(***************************************************************************)
(* Bounds of the model                                                     *)
(***************************************************************************)
\* number of configured models (a prefix of the configured list)
NumModels == 3
\* the clock runs from 0 to MaxTime
MaxTime == 1
\* longest new_order a reorder request carries
MaxOrderLen == 2
\* reorder requests that would make models_order longer than
\* NumModels + MaxExtra are not issued
MaxExtra == 1
\* requests served at the same time, each by a thread of the worker pool
NumThreads == 2
\* requests a behaviour of concurrent requests takes in all
MaxRequests == 3

(***************************************************************************)
(* Program constants                                                       *)
(***************************************************************************)
\* Optional[float] = None; every real time of the model is >= 0
None == -1
\* the outcome of int() on a non-numeric string
ValueError == -2
\* response.headers.get("retry-after", "5")
DefaultRetryAfter == <<"5">>

ConfiguredModels ==
    <<"openai/gpt-oss-120b", "llama-3.3-70b-versatile", "openai/gpt-oss-20b",
      "qwen/qwen3-32b", "llama-3.1-8b-instant">>

all_models == SubSeq(ConfiguredModels, 1, NumModels)

\* an id no model of the pool has (the example of ReorderRequest)
UnknownModel == "leander2 llama-3.3-70b-versatile"

Range(s) == {s[i] : i \in 1..Len(s)}

ModelIds == Range(all_models)

VARIABLES
    now,             \* time.time()
    models_order,    \* ModelPool.models_order
    disabled_until,  \* ModelPool.models: id -> ModelState.disabled_until
    deadline,        \* history: time + retry_after of the last disable of each model
    pc,              \* "idle", "trying", "waiting", "done"
    handler,         \* the endpoint being served
    request,         \* the request body of the endpoint being served
    messages,        \* chat: the message list handed to GroqClient.chat
    models_to_try,   \* chat: the candidate list
    idx,             \* chat: position of the for loop in models_to_try
    calls,           \* history: the upstream calls of this chat, in order
    result,          \* what the endpoint returns or raises
    threads,         \* concurrent requests: what each worker thread is at
    started,         \* concurrent requests: how many were taken so far
    reorders         \* history: the reorder calls that have assigned models_order

\* the variables of the concurrent requests
cvars == <<threads, started, reorders>>

vars == <<now, models_order, disabled_until, deadline, pc, handler, request,
          messages, models_to_try, idx, calls, result, cvars>>

(***************************************************************************)
(* ModelState                                                              *)
(***************************************************************************)
\* an is_available whose comparison excludes the instant of the deadline
IsAvailable_Strict(du, t) ==
    IF du = None THEN [returns |-> TRUE, disabled_until |-> du]
    ELSE IF t > du THEN [returns |-> TRUE, disabled_until |-> None]
    ELSE [returns |-> FALSE, disabled_until |-> du]

\* an is_available that clears a passed deadline but still answers false
IsAvailable_LateReset(du, t) ==
    IF du = None THEN [returns |-> TRUE, disabled_until |-> du]
    ELSE IF t >= du THEN [returns |-> FALSE, disabled_until |-> None]
    ELSE [returns |-> FALSE, disabled_until |-> du]

\* ModelState.is_available at time t: what it returns, and disabled_until
\* afterwards
IsAvailable(du, t) ==
    IF du = None THEN [returns |-> TRUE, disabled_until |-> du]
    ELSE IF t >= du THEN [returns |-> TRUE, disabled_until |-> None]
    ELSE [returns |-> FALSE, disabled_until |-> du]

\* a disable that forgets the upstream's hint
Disable_IgnoresHint(t, retry_after_seconds) == t + 5

\* disabled_until after ModelState.disable(retry_after_seconds) ran at time t
Disable(t, retry_after_seconds) == t + retry_after_seconds

(***************************************************************************)
(* ModelPool                                                               *)
(***************************************************************************)
\* a get_available_models that walks the models in their configured order
GetAvailableModels_ConfiguredOrder(order, du, t) ==
    [returns |-> SelectSeq(all_models, LAMBDA m : IsAvailable(du[m], t).returns),
     disabled_until |->
         [m \in DOMAIN du |->
             IF m \in Range(order) THEN IsAvailable(du[m], t).disabled_until
                                   ELSE du[m]]]

\* ModelPool.get_available_models at time t,
\* [m for m in self.models_order if self.models[m].is_available()]:
\* what it returns, and every model's disabled_until afterwards
GetAvailableModels(order, du, t) ==
    [returns |-> SelectSeq(order, LAMBDA m : IsAvailable(du[m], t).returns),
     disabled_until |->
         [m \in DOMAIN du |->
             IF m \in Range(order) THEN IsAvailable(du[m], t).disabled_until
                                   ELSE du[m]]]

\* a reorder that appends the models left out in their configured order, not
\* in the order they had before the call
Reorder_ConfiguredOrder(order, models, new_order) ==
    LET filtered_order == SelectSeq(new_order, LAMBDA m : m \in models)
        remaining == SelectSeq(all_models, LAMBDA m : m \notin Range(filtered_order))
    IN  filtered_order \o remaining

\* the models_order ModelPool.reorder(new_order) assigns
Reorder(order, models, new_order) ==
    LET filtered_order == SelectSeq(new_order, LAMBDA m : m \in models)
        remaining == SelectSeq(order, LAMBDA m : m \notin Range(filtered_order))
    IN  filtered_order \o remaining

(***************************************************************************)
(* The upstream chat endpoint and GroqClient._call_model                   *)
(***************************************************************************)
\* retry-after header values the upstream may send with a 429, as characters
RetryAfterHeaders == {<<"0">>, <<"1">>, <<"x">>}
\* non-success responses other than 429: status and body
ErrorResponses == {<<401, "denied">>, <<500, "boom">>}

\* what requests.post yields: a response, or a network-level exception
Responses ==
    {[kind |-> "response", status_code |-> 200, has_retry_after |-> FALSE,
      retry_after |-> <<>>, text |-> "completion"]}
    \cup {[kind |-> "response", status_code |-> 429, has_retry_after |-> FALSE,
           retry_after |-> <<>>, text |-> "rate limited"]}
    \cup {[kind |-> "response", status_code |-> 429, has_retry_after |-> TRUE,
           retry_after |-> h, text |-> "rate limited"] : h \in RetryAfterHeaders}
    \cup {[kind |-> "response", status_code |-> e[1], has_retry_after |-> FALSE,
           retry_after |-> <<>>, text |-> e[2]] : e \in ErrorResponses}
    \cup {[kind |-> "RequestException", status_code |-> 0, has_retry_after |-> FALSE,
           retry_after |-> <<>>, text |-> ""]}

\* no response yet
NoResponse ==
    [kind |-> "pending", status_code |-> 0, has_retry_after |-> FALSE,
     retry_after |-> <<>>, text |-> ""]

Digits == {"0", "1", "2", "3", "4", "5", "6", "7", "8", "9"}

DigitValue(c) ==
    CASE c = "0" -> 0 [] c = "1" -> 1 [] c = "2" -> 2 [] c = "3" -> 3
      [] c = "4" -> 4 [] c = "5" -> 5 [] c = "6" -> 6 [] c = "7" -> 7
      [] c = "8" -> 8 [] c = "9" -> 9

RECURSIVE DecimalValue(_)
DecimalValue(s) ==
    IF s = <<>> THEN 0
    ELSE 10 * DecimalValue(SubSeq(s, 1, Len(s) - 1)) + DigitValue(s[Len(s)])

\* int(s) of a header value: its decimal value, or ValueError
ParseInt(s) ==
    IF s # <<>> /\ \A i \in 1..Len(s) : s[i] \in Digits
    THEN DecimalValue(s) ELSE ValueError

\* response.ok
Ok(status_code) == status_code < 400

\* a _call_model that reports every upstream error as a 500
CallModel_Status500(model_id, resp) ==
    IF resp.kind # "response"
    THEN [kind |-> resp.kind, retry_after |-> 0, status_code |-> 0,
          detail |-> "", model |-> model_id]
    ELSE IF resp.status_code = 429
    THEN LET retry_after ==
                 ParseInt(IF resp.has_retry_after THEN resp.retry_after
                                                  ELSE DefaultRetryAfter)
         IN  IF retry_after = ValueError
             THEN [kind |-> "ValueError", retry_after |-> 0, status_code |-> 0,
                   detail |-> "", model |-> model_id]
             ELSE [kind |-> "RateLimitError", retry_after |-> retry_after,
                   status_code |-> 0, detail |-> "", model |-> model_id]
    ELSE IF ~Ok(resp.status_code)
    THEN [kind |-> "HTTPException", retry_after |-> 0,
          status_code |-> 500, detail |-> resp.text, model |-> model_id]
    ELSE [kind |-> "return", retry_after |-> 0, status_code |-> resp.status_code,
          detail |-> resp.text, model |-> model_id]

\* the outcome of GroqClient._call_model(model_id, messages) on response resp
CallModel(model_id, resp) ==
    IF resp.kind # "response"
    THEN [kind |-> resp.kind, retry_after |-> 0, status_code |-> 0,
          detail |-> "", model |-> model_id]
    ELSE IF resp.status_code = 429
    THEN LET retry_after ==
                 ParseInt(IF resp.has_retry_after THEN resp.retry_after
                                                  ELSE DefaultRetryAfter)
         IN  IF retry_after = ValueError
             THEN [kind |-> "ValueError", retry_after |-> 0, status_code |-> 0,
                   detail |-> "", model |-> model_id]
             ELSE [kind |-> "RateLimitError", retry_after |-> retry_after,
                   status_code |-> 0, detail |-> "", model |-> model_id]
    ELSE IF ~Ok(resp.status_code)
    THEN [kind |-> "HTTPException", retry_after |-> 0,
          status_code |-> resp.status_code, detail |-> resp.text,
          model |-> model_id]
    ELSE [kind |-> "return", retry_after |-> 0, status_code |-> resp.status_code,
          detail |-> resp.text, model |-> model_id]

(***************************************************************************)
(* What an endpoint returns or raises                                      *)
(***************************************************************************)
NoResult == [kind |-> "none", status_code |-> 0, detail |-> "", value |-> <<>>]

\* a Python bool as the JSON body of the response shows it
PyBool(b) == IF b THEN "true" ELSE "false"

Return(v) == [kind |-> "return", status_code |-> 200, detail |-> "", value |-> v]

HTTPException(status_code, detail) ==
    [kind |-> "HTTPException", status_code |-> status_code, detail |-> detail,
     value |-> <<>>]

\* an exception no handler of the service catches
Uncaught(kind) == [kind |-> kind, status_code |-> 500, detail |-> "", value |-> <<>>]

AllRateLimited == HTTPException(503, "All models are currently rate-limited")
RateLimitExceeded == HTTPException(429, "Rate limit exceeded for all available models")
InvalidModel == HTTPException(400, "Invalid or missing model")

(***************************************************************************)
(* Requests                                                                *)
(***************************************************************************)
\* Python's None where a string is expected
PyNone == "<None>"

\* the truth value Python gives an Optional[str]
Truthy(str) == str # PyNone /\ str # ""

SystemPrompts == {PyNone, "You are a helpful assistant"}

\* the model field of a manual chat request
RequestedModels == ModelIds \cup {UnknownModel, ""}

RECURSIVE SeqsUpTo(_, _)
SeqsUpTo(S, n) ==
    IF n = 0 THEN {<<>>}
    ELSE LET shorter == SeqsUpTo(S, n - 1)
         IN  shorter \cup {Append(s, x) : s \in shorter, x \in S}

\* the new_order field of a reorder request
NewOrders == SeqsUpTo(ModelIds \cup {UnknownModel}, MaxOrderLen)

NoRequest ==
    [message |-> "", system_prompt |-> PyNone, model |-> PyNone, new_order |-> <<>>]

\* the messages chat_auto and chat_manual build from the request
BuildMessages(req) ==
    <<[role |-> "system", content |-> req.system_prompt],
      [role |-> "user", content |-> req.message]>>

\* the worker threads that serve concurrent requests
Threads == 1..NumThreads

\* a worker thread with no request
IdleThread ==
    [op |-> "idle", pc |-> "idle", new_order |-> <<>>, list |-> <<>>, i |-> 0,
     acc |-> <<>>, result |-> NoResult]

TypeOK ==
    /\ now \in 0..MaxTime
    /\ \A i \in 1..Len(models_order) : models_order[i] \in ModelIds
    /\ DOMAIN disabled_until = ModelIds
    /\ \A m \in ModelIds : disabled_until[m] \in {None} \cup Nat
    /\ DOMAIN deadline = ModelIds
    /\ pc \in {"idle", "trying", "waiting", "done"}
    /\ idx \in 0..Len(models_to_try)
    /\ result.kind \in {"none", "return", "HTTPException", "ValueError",
                        "RequestException"}

Init ==
    /\ now = 0
    /\ models_order = all_models
    /\ disabled_until = [m \in ModelIds |-> None]
    /\ deadline = [m \in ModelIds |-> None]
    /\ pc = "idle"
    /\ handler = "none"
    /\ request = NoRequest
    /\ messages = <<>>
    /\ models_to_try = <<>>
    /\ idx = 0
    /\ calls = <<>>
    /\ result = NoResult
    /\ threads = [t \in Threads |-> IdleThread]
    /\ started = 0
    /\ reorders = <<>>

(***************************************************************************)
(* The clock                                                               *)
(***************************************************************************)
\* time passes between requests and while a chat waits for the upstream
Tick ==
    /\ pc \in {"idle", "waiting"}
    /\ now < MaxTime
    /\ now' = now + 1
    /\ UNCHANGED <<cvars, models_order, disabled_until, deadline, pc, handler, request,
                   messages, models_to_try, idx, calls, result>>

(***************************************************************************)
(* GroqClient.chat                                                         *)
(***************************************************************************)
\* a candidate list that falls back to the available models after the model
\* the caller named
ModelsToTry_Fallback(model, order, du, t) ==
    IF Truthy(model)
    THEN <<model>> \o SelectSeq(GetAvailableModels(order, du, t).returns,
                                LAMBDA m : m # model)
    ELSE GetAvailableModels(order, du, t).returns

\* a candidate list that drops the model the caller named while its cooldown
\* runs
ModelsToTry_Filtered(model, order, du, t) ==
    IF Truthy(model)
    THEN IF IsAvailable(du[model], t).returns THEN <<model>> ELSE <<>>
    ELSE GetAvailableModels(order, du, t).returns

\* models_to_try = [model] if model else self.model_pool.get_available_models()
ModelsToTry(model, order, du, t) ==
    IF Truthy(model) THEN <<model>> ELSE GetAvailableModels(order, du, t).returns

\* chat up to its for loop: the candidate list, or 503 when it is empty
ChatBegin(msgs, model) ==
    LET candidates == ModelsToTry(model, models_order, disabled_until, now)
    IN  /\ messages' = msgs
        /\ models_to_try' = candidates
        /\ disabled_until' =
               IF Truthy(model) THEN disabled_until
               ELSE GetAvailableModels(models_order, disabled_until, now).disabled_until
        /\ calls' = <<>>
        /\ IF candidates = <<>>
           THEN /\ pc' = "done"
                /\ idx' = 0
                /\ result' = AllRateLimited
           ELSE /\ pc' = "trying"
                /\ idx' = 1
                /\ result' = NoResult
        /\ UNCHANGED <<cvars, now, models_order, deadline>>

\* one iteration of the for loop sends the request for models_to_try[idx]
SendUpstream ==
    /\ pc = "trying"
    /\ models_to_try[idx] \in DOMAIN disabled_until
    /\ calls' = Append(calls, [model |-> models_to_try[idx], messages |-> messages,
                               resp |-> NoResponse, kind |-> "pending",
                               at |-> None, retry_after |-> 0])
    /\ pc' = "waiting"
    /\ UNCHANGED <<cvars, now, models_order, disabled_until, deadline, handler, request,
                   messages, models_to_try, idx, result>>

\* calls once the pending call came back with resp, which _call_model turned
\* into outcome
Logged(resp, outcome) ==
    [calls EXCEPT ![Len(calls)] =
        [model |-> calls[Len(calls)].model, messages |-> messages, resp |-> resp,
         kind |-> outcome.kind, at |-> now, retry_after |-> outcome.retry_after]]

\* what chat_auto and chat_manual return from the upstream's completion
ChatResponse(outcome) == Return(<<outcome.model, outcome.detail>>)

\* _call_model returned: chat returns the response
RespondSuccess(resp) ==
    LET outcome == CallModel(models_to_try[idx], resp)
    IN  /\ pc = "waiting"
        /\ outcome.kind = "return"
        /\ calls' = Logged(resp, outcome)
        /\ result' = ChatResponse(outcome)
        /\ pc' = "done"
        /\ UNCHANGED <<cvars, now, models_order, disabled_until, deadline, handler,
                       request, messages, models_to_try, idx>>

\* a rate-limit handler that never shortens a cooldown that is set
RespondRateLimited_KeepsLonger(resp) ==
    LET model_id == models_to_try[idx]
        outcome == CallModel(model_id, resp)
    IN  /\ pc = "waiting"
        /\ outcome.kind = "RateLimitError"
        /\ calls' = Logged(resp, outcome)
        /\ disabled_until' =
               [disabled_until EXCEPT ![model_id] =
                   IF disabled_until[model_id] > Disable(now, outcome.retry_after)
                   THEN disabled_until[model_id]
                   ELSE Disable(now, outcome.retry_after)]
        /\ deadline' = [deadline EXCEPT ![model_id] = now + outcome.retry_after]
        /\ IF idx < Len(models_to_try)
           THEN /\ idx' = idx + 1
                /\ pc' = "trying"
                /\ result' = result
           ELSE /\ idx' = idx
                /\ pc' = "done"
                /\ result' = RateLimitExceeded
        /\ UNCHANGED <<cvars, now, models_order, handler, request, messages, models_to_try>>

\* _call_model raised RateLimitError: disable the model, go on with the next
RespondRateLimited(resp) ==
    LET model_id == models_to_try[idx]
        outcome == CallModel(model_id, resp)
    IN  /\ pc = "waiting"
        /\ outcome.kind = "RateLimitError"
        /\ calls' = Logged(resp, outcome)
        /\ disabled_until' =
               [disabled_until EXCEPT ![model_id] = Disable(now, outcome.retry_after)]
        /\ deadline' = [deadline EXCEPT ![model_id] = now + outcome.retry_after]
        /\ IF idx < Len(models_to_try)
           THEN /\ idx' = idx + 1
                /\ pc' = "trying"
                /\ result' = result
           ELSE /\ idx' = idx
                /\ pc' = "done"
                /\ result' = RateLimitExceeded
        /\ UNCHANGED <<cvars, now, models_order, handler, request, messages, models_to_try>>

\* _call_model raised HTTPException: it leaves chat as it is
RespondHardFailure(resp) ==
    LET outcome == CallModel(models_to_try[idx], resp)
    IN  /\ pc = "waiting"
        /\ outcome.kind = "HTTPException"
        /\ calls' = Logged(resp, outcome)
        /\ result' = HTTPException(outcome.status_code, outcome.detail)
        /\ pc' = "done"
        /\ UNCHANGED <<cvars, now, models_order, disabled_until, deadline, handler,
                       request, messages, models_to_try, idx>>

\* _call_model raised an exception chat does not catch
RespondUncaught(resp) ==
    LET outcome == CallModel(models_to_try[idx], resp)
    IN  /\ pc = "waiting"
        /\ outcome.kind \in {"ValueError", "RequestException"}
        /\ calls' = Logged(resp, outcome)
        /\ result' = Uncaught(outcome.kind)
        /\ pc' = "done"
        /\ UNCHANGED <<cvars, now, models_order, disabled_until, deadline, handler,
                       request, messages, models_to_try, idx>>

(***************************************************************************)
(* Endpoints                                                               *)
(***************************************************************************)
\* POST /chat/auto
ChatAuto(system_prompt) ==
    LET req == [NoRequest EXCEPT !.message = "hi", !.system_prompt = system_prompt]
    IN  /\ pc = "idle"
        /\ handler' = "chat_auto"
        /\ request' = req
        /\ ChatBegin(BuildMessages(req), PyNone)

\* a validation that only asks for a model to be named
ValidModel_AnyName(model) == Truthy(model)

\* not (not request.model or request.model not in all_models)
ValidModel(model) == Truthy(model) /\ model \in Range(all_models)

\* POST /chat/manual
ChatManual(model, system_prompt) ==
    LET req == [NoRequest EXCEPT !.message = "hi", !.system_prompt = system_prompt,
                                 !.model = model]
    IN  /\ pc = "idle"
        /\ handler' = "chat_manual"
        /\ request' = req
        /\ IF ~ValidModel(req.model)
           THEN /\ result' = InvalidModel
                /\ pc' = "done"
                /\ UNCHANGED <<cvars, now, models_order, disabled_until, deadline,
                               messages, models_to_try, idx, calls>>
           ELSE ChatBegin(BuildMessages(req), req.model)

\* GET /models/available
GetAvailableModelsEndpoint ==
    /\ pc = "idle"
    /\ handler' = "get_available_models"
    /\ result' = Return(GetAvailableModels(models_order, disabled_until, now).returns)
    /\ disabled_until' =
           GetAvailableModels(models_order, disabled_until, now).disabled_until
    /\ pc' = "done"
    /\ UNCHANGED <<cvars, now, models_order, deadline, request, messages, models_to_try,
                   idx, calls>>

\* a reorder that gives every model a fresh start
ReorderModels_ResetsCooldowns(new_order) ==
    /\ pc = "idle"
    /\ Len(Reorder(models_order, DOMAIN disabled_until, new_order))
           <= NumModels + MaxExtra
    /\ handler' = "reorder_models"
    /\ request' = [NoRequest EXCEPT !.new_order = new_order]
    /\ models_order' = Reorder(models_order, DOMAIN disabled_until, new_order)
    /\ disabled_until' = [m \in DOMAIN disabled_until |-> None]
    /\ result' = Return(models_order')
    /\ pc' = "done"
    /\ UNCHANGED <<cvars, now, deadline, messages, models_to_try, idx, calls>>

\* a reorder that registers the unknown ids of new_order as models
ReorderModels_AddsUnknown(new_order) ==
    /\ pc = "idle"
    /\ Len(Reorder(models_order, DOMAIN disabled_until, new_order))
           <= NumModels + MaxExtra
    /\ handler' = "reorder_models"
    /\ request' = [NoRequest EXCEPT !.new_order = new_order]
    /\ models_order' = Reorder(models_order, DOMAIN disabled_until, new_order)
    /\ disabled_until' =
           [m \in DOMAIN disabled_until \cup Range(new_order) |->
               IF m \in DOMAIN disabled_until THEN disabled_until[m] ELSE None]
    /\ result' = Return(models_order')
    /\ pc' = "done"
    /\ UNCHANGED <<cvars, now, deadline, messages, models_to_try, idx, calls>>

\* POST /models/reorder
ReorderModels(new_order) ==
    /\ pc = "idle"
    /\ Len(Reorder(models_order, DOMAIN disabled_until, new_order))
           <= NumModels + MaxExtra
    /\ handler' = "reorder_models"
    /\ request' = [NoRequest EXCEPT !.new_order = new_order]
    /\ models_order' = Reorder(models_order, DOMAIN disabled_until, new_order)
    /\ result' = Return(models_order')
    /\ pc' = "done"
    /\ UNCHANGED <<cvars, now, disabled_until, deadline, messages, models_to_try, idx,
                   calls>>

\* a best-model query that answers with the first available model
GetBestModel_Available ==
    LET available_models ==
            GetAvailableModels(models_order, disabled_until, now).returns
        best_model_id ==
            IF available_models = <<>> THEN models_order[1] ELSE available_models[1]
    IN  /\ pc = "idle"
        /\ handler' = "get_best_model"
        /\ result' = Return(<<best_model_id,
                              PyBool(IsAvailable(disabled_until[best_model_id],
                                                 now).returns)>>)
        /\ disabled_until' =
               GetAvailableModels(models_order, disabled_until, now).disabled_until
        /\ pc' = "done"
        /\ UNCHANGED <<cvars, now, models_order, deadline, request, messages,
                       models_to_try, idx, calls>>

\* GET /models/best
GetBestModel ==
    /\ pc = "idle"
    /\ handler' = "get_best_model"
    /\ IF models_order = <<>>
       THEN /\ result' = [Return(<<>>) EXCEPT !.detail = "No models configured"]
            /\ UNCHANGED disabled_until
       ELSE LET best_model_id == models_order[1]
            IN  /\ result' = Return(<<best_model_id,
                                      PyBool(IsAvailable(disabled_until[best_model_id],
                                                 now).returns)>>)
                /\ disabled_until' =
                       [disabled_until EXCEPT ![best_model_id] =
                           IsAvailable(disabled_until[best_model_id], now).disabled_until]
    /\ pc' = "done"
    /\ UNCHANGED <<cvars, now, models_order, deadline, request, messages, models_to_try,
                   idx, calls>>

\* GET /models/best-available
GetBestAvailableModel ==
    LET available_models ==
            GetAvailableModels(models_order, disabled_until, now).returns
    IN  /\ pc = "idle"
        /\ handler' = "get_best_available_model"
        /\ disabled_until' =
           GetAvailableModels(models_order, disabled_until, now).disabled_until
        /\ result' =
               IF available_models = <<>>
               THEN [Return(<<>>) EXCEPT !.detail = "No models currently available"]
               ELSE Return(<<available_models[1], PyBool(TRUE)>>)
        /\ pc' = "done"
        /\ UNCHANGED <<cvars, now, models_order, deadline, request, messages,
                       models_to_try, idx, calls>>

\* the response is sent and the next request is taken
Finish ==
    /\ pc = "done"
    /\ pc' = "idle"
    /\ handler' = "none"
    /\ request' = NoRequest
    /\ messages' = <<>>
    /\ models_to_try' = <<>>
    /\ idx' = 0
    /\ calls' = <<>>
    /\ result' = NoResult
    /\ UNCHANGED <<cvars, now, models_order, disabled_until, deadline>>

Next ==
    \/ Tick
    \/ \E system_prompt \in SystemPrompts : ChatAuto(system_prompt)
    \/ \E model \in RequestedModels, system_prompt \in SystemPrompts :
           ChatManual(model, system_prompt)
    \/ SendUpstream
    \/ \E resp \in Responses : RespondSuccess(resp)
    \/ \E resp \in Responses : RespondRateLimited(resp)
    \/ \E resp \in Responses : RespondHardFailure(resp)
    \/ \E resp \in Responses : RespondUncaught(resp)
    \/ GetAvailableModelsEndpoint
    \/ \E new_order \in NewOrders : ReorderModels(new_order)
    \/ GetBestModel
    \/ GetBestAvailableModel
    \/ Finish

Spec == Init /\ [][Next]_vars

\* the interpreter goes on with the loop of chat, and every upstream call
\* comes back: requests.post returns or raises, it does not block for ever
Fairness ==
    /\ WF_pc(SendUpstream)
    /\ WF_pc(\E resp \in Responses :
                \/ RespondSuccess(resp)
                \/ RespondRateLimited(resp)
                \/ RespondHardFailure(resp)
                \/ RespondUncaught(resp))

SpecLive == Spec /\ Fairness

(***************************************************************************)
(* Concurrent requests.  The endpoints are plain functions, which FastAPI  *)
(* runs in a thread pool; the pool object is shared and nothing locks it.  *)
(* A step of a thread is one read or one write of a shared attribute.      *)
(* Thread t holds: op, the endpoint it serves; pc, its position; new_order *)
(* of a reorder; list, the models_order object it iterates; i, its index   *)
(* in the running loop; acc, the list it builds; result, what it returns.  *)
(***************************************************************************)
\* the variables of the one-request-at-a-time specification
svars == <<pc, handler, request, messages, models_to_try, idx, calls, result>>

\* the new_order values of the concurrent reorder requests: one known id
ConcurrentNewOrders == {<<m>> : m \in ModelIds}

\* the upstream's answers to the concurrent chats: a completion, a rate limit
\* without a hint and with the hint 0, a server error
ConcurrentResponses ==
    {r \in Responses :
        \/ r.status_code \in {200, 500}
        \/ r.status_code = 429 /\ r.retry_after \in {<<>>, <<"0">>}}

\* thread t's record with the fields of upd replaced
With(t, upd) ==
    [threads EXCEPT ![t] = [f \in DOMAIN threads[t] |->
                               IF f \in DOMAIN upd THEN upd[f] ELSE threads[t][f]]]

\* the model whose is_available thread t is in
Checked(t) == threads[t].list[threads[t].i]

\* reorder: filtered_order and remaining are computed from the models_order
\* object read at this moment
CReorderBegin(t, new_order) ==
    /\ threads[t].pc = "idle"
    /\ started < MaxRequests
    /\ started' = started + 1
    /\ threads' = With(t, [op |-> "reorder_models", pc |-> "write",
                           new_order |-> new_order,
                           acc |-> Reorder(models_order, DOMAIN disabled_until,
                                           new_order)])
    /\ UNCHANGED <<now, models_order, disabled_until, deadline, reorders, svars>>

\* reorder: self.models_order = filtered_order + remaining
CReorderWrite(t) ==
    /\ threads[t].pc = "write"
    /\ models_order' = threads[t].acc
    /\ reorders' = Append(reorders, [new_order |-> threads[t].new_order,
                                     wrote |-> threads[t].acc])
    /\ threads' = With(t, [pc |-> "return"])
    /\ UNCHANGED <<now, disabled_until, deadline, started, svars>>

\* reorder_models returns model_pool.models_order as it is by then
CReorderReturn(t) ==
    /\ threads[t].pc = "return"
    /\ threads' = With(t, [pc |-> "done", result |-> Return(models_order)])
    /\ UNCHANGED <<now, models_order, disabled_until, deadline, started, reorders,
                   svars>>

\* get_available_models, called by GET /models/available or by an auto-mode
\* chat, starts to iterate the models_order object of this moment
CAvailableBegin(t, op) ==
    /\ threads[t].pc = "idle"
    /\ started < MaxRequests
    /\ started' = started + 1
    /\ threads' = With(t, [op |-> op, pc |-> "test", list |-> models_order,
                           i |-> 1, acc |-> <<>>])
    /\ UNCHANGED <<now, models_order, disabled_until, deadline, reorders, svars>>

\* is_available: if self.disabled_until is None: return True
CTestNone(t) ==
    /\ threads[t].pc = "test"
    /\ threads[t].i <= Len(threads[t].list)
    /\ threads' =
           IF disabled_until[Checked(t)] = None
           THEN With(t, [i |-> threads[t].i + 1,
                         acc |-> Append(threads[t].acc, Checked(t))])
           ELSE With(t, [pc |-> "compare"])
    /\ UNCHANGED <<now, models_order, disabled_until, deadline, started, reorders,
                   svars>>

\* is_available: if time.time() >= self.disabled_until, with the attribute
\* read again; comparing a float with None raises TypeError
CCompare(t) ==
    /\ threads[t].pc = "compare"
    /\ threads' =
           IF disabled_until[Checked(t)] = None
           THEN With(t, [pc |-> "done", result |-> Uncaught("TypeError")])
           ELSE IF now >= disabled_until[Checked(t)]
           THEN With(t, [pc |-> "clear"])
           ELSE With(t, [pc |-> "test", i |-> threads[t].i + 1])
    /\ UNCHANGED <<now, models_order, disabled_until, deadline, started, reorders,
                   svars>>

\* is_available: self.disabled_until = None; return True
CClear(t) ==
    /\ threads[t].pc = "clear"
    /\ disabled_until' = [disabled_until EXCEPT ![Checked(t)] = None]
    /\ threads' = With(t, [pc |-> "test", i |-> threads[t].i + 1,
                           acc |-> Append(threads[t].acc, Checked(t))])
    /\ UNCHANGED <<now, models_order, deadline, started, reorders, svars>>

\* the comprehension of get_available_models is through: the endpoint returns
\* the list, chat raises 503 on an empty list or starts its loop
CAvailableEnd(t) ==
    /\ threads[t].pc = "test"
    /\ threads[t].i > Len(threads[t].list)
    /\ threads' =
           IF threads[t].op = "get_available_models"
           THEN With(t, [pc |-> "done", result |-> Return(threads[t].acc)])
           ELSE IF threads[t].acc = <<>>
           THEN With(t, [pc |-> "done", result |-> AllRateLimited])
           ELSE With(t, [pc |-> "trying", i |-> 1])
    /\ UNCHANGED <<now, models_order, disabled_until, deadline, started, reorders,
                   svars>>

\* chat: the next candidate is sent to the upstream
CSend(t) ==
    /\ threads[t].pc = "trying"
    /\ threads' = With(t, [pc |-> "waiting"])
    /\ UNCHANGED <<now, models_order, disabled_until, deadline, started, reorders,
                   svars>>

\* chat: the upstream call came back with resp
CRespond(t, resp) ==
    LET model_id == threads[t].acc[threads[t].i]
        outcome == CallModel(model_id, resp)
    IN  /\ threads[t].pc = "waiting"
        /\ IF outcome.kind = "RateLimitError"
           THEN /\ disabled_until' =
                       [disabled_until EXCEPT
                           ![model_id] = Disable(now, outcome.retry_after)]
                /\ deadline' =
                       [deadline EXCEPT ![model_id] = now + outcome.retry_after]
                /\ threads' =
                       IF threads[t].i < Len(threads[t].acc)
                       THEN With(t, [pc |-> "trying", i |-> threads[t].i + 1])
                       ELSE With(t, [pc |-> "done", result |-> RateLimitExceeded])
           ELSE /\ UNCHANGED <<disabled_until, deadline>>
                /\ threads' =
                       With(t, [pc |-> "done",
                                result |->
                                    CASE outcome.kind = "return" ->
                                             ChatResponse(outcome)
                                      [] outcome.kind = "HTTPException" ->
                                             HTTPException(outcome.status_code,
                                                           outcome.detail)
                                      [] OTHER -> Uncaught(outcome.kind)])
        /\ UNCHANGED <<now, models_order, started, reorders, svars>>

\* the response is sent and the thread is free again
CFinish(t) ==
    /\ threads[t].pc = "done"
    /\ threads' = [threads EXCEPT ![t] = IdleThread]
    /\ UNCHANGED <<now, models_order, disabled_until, deadline, started, reorders,
                   svars>>

NextConc ==
    \/ Tick
    \/ \E t \in Threads, new_order \in ConcurrentNewOrders :
           CReorderBegin(t, new_order)
    \/ \E t \in Threads : CReorderWrite(t)
    \/ \E t \in Threads : CReorderReturn(t)
    \/ \E t \in Threads, op \in {"get_available_models", "chat_auto"} :
           CAvailableBegin(t, op)
    \/ \E t \in Threads : CTestNone(t)
    \/ \E t \in Threads : CCompare(t)
    \/ \E t \in Threads : CClear(t)
    \/ \E t \in Threads : CAvailableEnd(t)
    \/ \E t \in Threads : CSend(t)
    \/ \E t \in Threads, resp \in ConcurrentResponses : CRespond(t, resp)
    \/ \E t \in Threads : CFinish(t)

SpecConc == Init /\ [][NextConc]_vars

(***************************************************************************)
(* Properties                                                              *)
(***************************************************************************)
Last(s) == s[Len(s)]

NoDuplicates(s) == \A i, j \in 1..Len(s) : i # j => s[i] # s[j]

\* s is t with some entries left out
RECURSIVE IsSubsequence(_, _)
IsSubsequence(s, t) ==
    IF s = <<>> THEN TRUE
    ELSE IF t = <<>> THEN FALSE
    ELSE IF Head(s) = Head(t) THEN IsSubsequence(Tail(s), Tail(t))
    ELSE IsSubsequence(s, Tail(t))

\* the entries of s that are in S, in the order of s
RECURSIVE Keep(_, _)
Keep(s, S) ==
    IF s = <<>> THEN <<>>
    ELSE IF Head(s) \in S THEN <<Head(s)>> \o Keep(Tail(s), S)
    ELSE Keep(Tail(s), S)

\* the index of the last call of this chat that went to model m
LastCallOf(m) ==
    CHOOSE i \in 1..Len(calls) :
        /\ calls[i].model = m
        /\ \A j \in (i + 1)..Len(calls) : calls[j].model # m

\* an auto-mode chat has ended with the response of a successful upstream call
AutoSucceeded ==
    /\ pc = "done"
    /\ handler = "chat_auto"
    /\ result.kind = "return"

\* C1: an auto-mode chat that succeeds has called a prefix of its candidate
\* list, the candidates in priority order; the last call is the successful one
\* and its response is returned; every candidate before it was called exactly
\* once, was rate-limited and is disabled until its call time plus its
\* retry_after; no later candidate was called.
C1_FirstSuccessWins ==
    AutoSucceeded =>
        /\ IsSubsequence(models_to_try, models_order)
        /\ Len(calls) <= Len(models_to_try)
        /\ \A i \in 1..Len(calls) : calls[i].model = models_to_try[i]
        /\ Last(calls).kind = "return"
        /\ result.value[1] = Last(calls).model
        /\ \A i \in 1..(Len(calls) - 1) :
               /\ calls[i].kind = "RateLimitError"
               /\ \A j \in 1..Len(calls) : j # i => calls[j].model # calls[i].model
               /\ disabled_until[calls[i].model] = calls[i].at + calls[i].retry_after

\* C1 on pools whose models_order lists every model once: the claim holds
\* wherever reorder has not duplicated an id
C1_FirstSuccessWinsWithoutDuplicates ==
    NoDuplicates(models_order) => C1_FirstSuccessWins

\* C2: models_order is a permutation of the keys of models: every known id
\* appears exactly once and nothing else appears.
C2_OrderIsPermutation ==
    /\ Range(models_order) = DOMAIN disabled_until
    /\ NoDuplicates(models_order)

\* the step in which the upstream call of an auto-mode chat comes back with a
\* non-429 error status
AutoHardFailureStep ==
    /\ handler = "chat_auto"
    /\ pc = "waiting"
    /\ pc' # "waiting"
    /\ Last(calls').resp.kind = "response"
    /\ Last(calls').resp.status_code # 429
    /\ ~Ok(Last(calls').resp.status_code)

\* C3: when the upstream call of an auto-mode chat returns a non-429 error
\* status, the chat ends in that step with an HTTPException carrying exactly
\* the upstream's status and body, no further call is made (also when
\* candidates remain), and no model's disabled_until changes.
C3_HardFailurePropagates ==
    [][AutoHardFailureStep =>
          /\ pc' = "done"
          /\ result'.kind = "HTTPException"
          /\ result'.status_code = Last(calls').resp.status_code
          /\ result'.detail = Last(calls').resp.text
          /\ Len(calls') = Len(calls)
          /\ idx' = idx
          /\ disabled_until' = disabled_until]_vars

\* an auto-mode chat has hard-failed on its first candidate while others remain
C3_Witness ==
    /\ pc = "done"
    /\ handler = "chat_auto"
    /\ Len(calls) = 1
    /\ Len(models_to_try) > 1
    /\ Last(calls).resp.status_code = 500
    /\ result = HTTPException(500, "boom")
    /\ disabled_until[calls[1].model] = None

\* every candidate of an auto-mode chat was called and rate-limited
AutoAllRateLimited ==
    /\ pc = "done"
    /\ handler = "chat_auto"
    /\ Len(calls) = Len(models_to_try)
    /\ calls # <<>>
    /\ \A i \in 1..Len(calls) : calls[i].kind = "RateLimitError"

\* C4: when every candidate of an auto-mode chat is rate-limited, the chat
\* fails with the all-rate-limited error of the loop, and every model of the
\* candidate list is disabled until the time of its (last) call plus that
\* call's retry_after.
C4_AllRateLimited ==
    AutoAllRateLimited =>
        /\ result = RateLimitExceeded
        /\ \A i \in 1..Len(models_to_try) :
               LET m == models_to_try[i]
                   c == calls[LastCallOf(m)]
               IN  /\ disabled_until[m] # None
                   /\ disabled_until[m] = c.at + c.retry_after

\* three distinct candidates were rate-limited, at different times and with
\* different retry_after values
C4_Witness ==
    /\ AutoAllRateLimited
    /\ Len(calls) >= 3
    /\ NoDuplicates(models_to_try)
    /\ calls[1].at < calls[3].at
    /\ calls[1].retry_after # calls[2].retry_after

\* an endpoint step that checks is_available of model m and finds answer:
\* GET /models/best checks the first model of models_order, GET
\* /models/available and the start of an auto-mode chat check every model
IsAvailableChecked(m, answer) ==
    /\ pc = "idle"
    /\ \/ /\ handler' = "get_best_model"
          /\ m = models_order[1]
          /\ PyBool(answer) = result'.value[2]
       \/ /\ handler' = "get_available_models"
          /\ answer = (m \in Range(result'.value))
       \/ /\ handler' = "chat_auto"
          /\ answer = (m \in Range(models_to_try'))

\* C5: deadline[m] is the time of the last disable of m plus its
\* retry_after.  Every is_available check of m made since then answers false
\* when the clock is strictly before the deadline and true when it is at or
\* past it (after disable(0): true at the disable time itself); a check that
\* answers true leaves disabled_until cleared, one that answers false leaves
\* it at the deadline.
C5_CooldownWindow ==
    [][\A m \in ModelIds : \A answer \in BOOLEAN :
          (IsAvailableChecked(m, answer) /\ deadline[m] # None) =>
              /\ answer = (now >= deadline[m])
              /\ answer => disabled_until'[m] = None
              /\ ~answer => disabled_until'[m] = deadline[m]]_vars

\* a check at the very instant of a deadline that lay in the future when it
\* was set has answered true and cleared disabled_until
C5_Witness ==
    /\ pc = "done"
    /\ handler = "get_best_model"
    /\ deadline[models_order[1]] = now
    /\ now > 0
    /\ result.value[2] = PyBool(TRUE)
    /\ disabled_until[models_order[1]] = None

\* a model disabled with retry_after 0 was found available at that same time
C5_WitnessZero ==
    /\ pc = "done"
    /\ handler = "get_available_models"
    /\ \E m \in ModelIds : deadline[m] = 0 /\ m \in Range(result.value)

\* a model is reported unavailable strictly before its deadline
C5_WitnessBefore ==
    /\ pc = "done"
    /\ handler = "get_best_model"
    /\ deadline[models_order[1]] = now + 1
    /\ result.value[2] = PyBool(FALSE)

\* the step of POST /models/reorder
ReorderStep == pc = "idle" /\ handler' = "reorder_models"

\* C6: reorder(new_order) sets models_order to the known ids of new_order in
\* the order given, followed by the entries of the previous models_order whose
\* id is absent from new_order, in their previous relative order; the keys of
\* models do not change, so an unknown id is never added.
C6_ReorderPolicy ==
    [][ReorderStep =>
          LET new_order == request'.new_order
              known == DOMAIN disabled_until
          IN  /\ models_order' =
                     Keep(new_order, known)
                         \o Keep(models_order, known \ Range(new_order))
              /\ DOMAIN disabled_until' = known
              /\ Range(models_order') \subseteq known]_vars

\* a reorder that named one known and one unknown id has put the known one
\* first and appended the two others, which before the call stood in the
\* order opposite to the configured one
C6_Witness ==
    /\ pc = "done"
    /\ handler = "reorder_models"
    /\ Len(request.new_order) = 2
    /\ UnknownModel \in Range(request.new_order)
    /\ models_order = <<all_models[2], all_models[3], all_models[1]>>

\* the step of POST /chat/manual for a model that is no known registry id
ManualUnknownStep ==
    /\ pc = "idle"
    /\ handler' = "chat_manual"
    /\ request'.model \notin DOMAIN disabled_until

\* C7: a manual-mode chat request whose model is no key of models ends in
\* the step that takes it, with the 400 client error 'Invalid or missing
\* model'; no upstream call is made and models_order and every disabled_until
\* are unchanged.
C7_InvalidModel ==
    [][ManualUnknownStep =>
          /\ pc' = "done"
          /\ result' = InvalidModel
          /\ result'.status_code = 400
          /\ calls' = <<>>
          /\ models_to_try' = <<>>
          /\ models_order' = models_order
          /\ disabled_until' = disabled_until]_vars

\* a manual request for an unknown, non-empty model id was refused while a
\* model of the pool was in its cooldown
C7_Witness ==
    /\ pc = "done"
    /\ handler = "chat_manual"
    /\ request.model = UnknownModel
    /\ result = InvalidModel
    /\ calls = <<>>
    /\ \E m \in ModelIds : disabled_until[m] # None

\* a manual-mode chat for a known model
ManualKnown ==
    /\ handler = "chat_manual"
    /\ request.model \in DOMAIN disabled_until

\* C8: in a manual-mode chat for a known model the candidate list is that one
\* model; at most one upstream call is made and it goes to the requested
\* model; when it is rate-limited the chat ends with the all-rate-limited
\* error of the loop and the model is disabled until the call time plus
\* retry_after, and no other model was called.
C8_ManualSingleCandidate ==
    ManualKnown =>
        /\ models_to_try = <<request.model>>
        /\ Len(calls) <= 1
        /\ \A i \in 1..Len(calls) : calls[i].model = request.model
        /\ (calls # <<>> /\ calls[1].kind = "RateLimitError") =>
               /\ pc = "done"
               /\ result = RateLimitExceeded
               /\ disabled_until[request.model] = calls[1].at + calls[1].retry_after

\* a manual chat for the model of lowest priority was rate-limited with a
\* retry-after of 1 while every other model was available
C8_Witness ==
    /\ ManualKnown
    /\ pc = "done"
    /\ request.model = Last(models_order)
    /\ calls[1].kind = "RateLimitError"
    /\ calls[1].retry_after = 1
    /\ \A m \in ModelIds \ {request.model} : disabled_until[m] = None

\* C9: a manual-mode chat for a known model never ends without its upstream
\* call: whatever the model's cooldown, when the chat is done it has called
\* the requested model once, and its result is not the 503 of an empty
\* candidate list.
C9_ManualBypassesCooldown ==
    (ManualKnown /\ pc = "done") =>
        /\ Len(calls) = 1
        /\ calls[1].model = request.model
        /\ calls[1].kind # "pending"
        /\ result # AllRateLimited

\* a manual chat got a completion from a model whose cooldown was running
\* during the whole call
C9_Witness ==
    /\ ManualKnown
    /\ pc = "done"
    /\ calls[1].kind = "return"
    /\ result.kind = "return"
    /\ result.value[1] = request.model
    /\ disabled_until[request.model] # None
    /\ now < disabled_until[request.model]

\* model m is usable: its disabled_until is unset or has passed
Usable(m) == disabled_until[m] = None \/ disabled_until[m] <= now

\* a step that calls get_available_models and gets list: GET
\* /models/available, or the start of an auto-mode chat
GetAvailableModelsCalled(list) ==
    /\ pc = "idle"
    /\ \/ handler' = "get_available_models" /\ list = result'.value
       \/ handler' = "chat_auto" /\ list = models_to_try'

\* C10: get_available_models returns models_order with exactly the entries
\* of unusable models left out, the others in the order of models_order; it
\* leaves models_order as it is, and a disabled_until either as it is or, when
\* it had passed, cleared.
C10_AvailableModels ==
    [][\A list \in {result'.value, models_to_try'} :
          GetAvailableModelsCalled(list) =>
              /\ list = Keep(models_order, {m \in ModelIds : Usable(m)})
              /\ models_order' = models_order
              /\ now' = now
              /\ \A m \in ModelIds :
                     \/ disabled_until'[m] = disabled_until[m]
                     \/ /\ disabled_until[m] # None
                        /\ disabled_until[m] <= now
                        /\ disabled_until'[m] = None]_vars

\* GET /models/available has returned two models in an order that is not the
\* configured one, has left out a model whose cooldown runs and has cleared a
\* cooldown that had passed
C10_Witness ==
    /\ pc = "done"
    /\ handler = "get_available_models"
    /\ result.value = <<all_models[3], all_models[1]>>
    /\ NoDuplicates(models_order)
    /\ disabled_until[all_models[2]] > now
    /\ deadline[all_models[1]] # None
    /\ disabled_until[all_models[1]] = None

\* the step in which a chat disables the model of its rate-limited call
DisableStep ==
    /\ pc = "waiting"
    /\ Last(calls').kind = "RateLimitError"

\* C11: when a chat disables a model, disabled_until becomes the time of
\* that call plus the retry_after of the rate-limited response, whatever
\* disabled_until was before: deadlines do not add up and the later one does
\* not win, so a smaller hint shortens a running cooldown.
C11_DisableOverwrites ==
    [][DisableStep =>
          LET m == Last(calls').model
          IN  /\ disabled_until'[m] = now + Last(calls').retry_after
              /\ \A other \in ModelIds \ {m} :
                     disabled_until'[other] = disabled_until[other]]_vars

\* one chat was rate-limited twice by the same model, and the second hint
\* ends earlier than the first: the model's cooldown is the second, shorter one
C11_Witness ==
    /\ pc \in {"waiting", "done"}
    /\ Len(calls) >= 2
    /\ Last(calls).kind = "RateLimitError"
    /\ \E i \in 1..(Len(calls) - 1) :
           /\ calls[i].model = Last(calls).model
           /\ calls[i].kind = "RateLimitError"
           /\ calls[i].at + calls[i].retry_after
                  > Last(calls).at + Last(calls).retry_after
    /\ disabled_until[Last(calls).model]
           = Last(calls).at + Last(calls).retry_after

\* an auto-mode chat that found no available model and called nothing
AutoNoCandidate ==
    /\ pc = "done"
    /\ handler = "chat_auto"
    /\ models_to_try = <<>>

\* C12: an auto-mode chat that finds no available model and an auto-mode chat
\* whose candidates were all rate-limited during the call fail with the same
\* error, the service-unavailable AllModelsRateLimited (status 503).
C12_SingleErrorKind ==
    (AutoNoCandidate \/ AutoAllRateLimited) => result = AllRateLimited

\* the part of C12 the code keeps: no candidate at all is answered with 503
C12_NoCandidateIs503 ==
    AutoNoCandidate => result = AllRateLimited /\ calls = <<>>

\* the retry_after a 429 response stands for: the integer value of its
\* retry-after header, 5 when the header is absent or is not a number
HintOf(resp) ==
    IF resp.has_retry_after /\ ParseInt(resp.retry_after) # ValueError
    THEN ParseInt(resp.retry_after)
    ELSE 5

\* the i-th call of the chat was answered with HTTP 429
Answered429(i) ==
    /\ calls[i].resp.kind = "response"
    /\ calls[i].resp.status_code = 429

\* call i was turned into a rate limit with the response's hint, its model was
\* disabled, and the chat went on to the next candidate if there is one
RateLimitedAndFellBack(i) ==
    /\ calls[i].kind = "RateLimitError"
    /\ calls[i].retry_after = HintOf(calls[i].resp)
    /\ deadline[calls[i].model] # None
    /\ i < Len(models_to_try) => pc # "done" \/ Len(calls) > i

\* C13: every upstream 429 becomes a RateLimited outcome whose retry_after is
\* the integer of the retry-after header, or 5 when the header is absent or
\* non-numeric; in each of the three cases the candidate is disabled and the
\* chat falls back to the next one.
C13_RateLimitedAlways ==
    \A i \in 1..Len(calls) : Answered429(i) => RateLimitedAndFellBack(i)

\* the two cases of C13 the code keeps: a numeric header and an absent header
C13_NumericOrAbsent ==
    \A i \in 1..Len(calls) :
        /\ Answered429(i)
        /\ ~calls[i].resp.has_retry_after
              \/ ParseInt(calls[i].resp.retry_after) # ValueError
        => RateLimitedAndFellBack(i)

\* the step in which the pending upstream call fails at the network level
NetworkFailureStep ==
    /\ pc = "waiting"
    /\ Last(calls').resp.kind = "RequestException"

\* C14: a network-level failure of the upstream call ends the chat with a
\* dispatch failure that carries a status and a detail (a HardFailure with a
\* synthetic status); no further candidate is tried and the candidate gets no
\* cooldown.
C14_NetworkFailureIsHardFailure ==
    [][NetworkFailureStep =>
          /\ pc' = "done"
          /\ result'.kind = "HTTPException"
          /\ result'.status_code >= 400
          /\ disabled_until' = disabled_until]_vars

\* the part of C14 the code keeps: the chat stops at the failed candidate
\* without a response, and no cooldown is recorded
C14_NetworkFailureStops ==
    [][NetworkFailureStep =>
          /\ pc' = "done"
          /\ result'.kind # "return"
          /\ disabled_until' = disabled_until]_vars

\* C15: the message list of an upstream call has a system-role message, before
\* the user message, if and only if the request carries a system prompt;
\* without a system prompt it is the single user message.
C15_SystemMessageIffPrompt ==
    \A i \in 1..Len(calls) :
        calls[i].messages =
            IF request.system_prompt # PyNone
            THEN <<[role |-> "system", content |-> request.system_prompt],
                   [role |-> "user", content |-> request.message]>>
            ELSE <<[role |-> "user", content |-> request.message]>>

\* the part of C15 the code keeps: with a system prompt, the system message
\* comes first and the user message second
C15_WithSystemPrompt ==
    \A i \in 1..Len(calls) :
        request.system_prompt # PyNone =>
            calls[i].messages =
                <<[role |-> "system", content |-> request.system_prompt],
                  [role |-> "user", content |-> request.message]>>

\* C16: the keys of ModelPool.models are the configured startup list in every
\* reachable state: no chat, reorder, disable or availability query adds or
\* removes a model.
C16_KnownModelsFixed ==
    /\ DOMAIN disabled_until = Range(all_models)
    /\ DOMAIN deadline = Range(all_models)

\* a reorder that names an unknown id has run while a model was in cooldown
C16_Witness ==
    /\ pc = "done"
    /\ handler = "reorder_models"
    /\ UnknownModel \in Range(request.new_order)
    /\ models_order # all_models
    /\ \E m \in ModelIds : disabled_until[m] # None /\ now < disabled_until[m]

\* the step that serves GET /models/best
GetBestModelStep ==
    /\ pc = "idle"
    /\ handler' = "get_best_model"

\* C17: the best-model query returns the first id of models_order without
\* availability filtering, also while that model is in an unexpired
\* cooldown; its answer differs from the first element of
\* get_available_models exactly when that first model is unavailable.
C17_BestModelUnfiltered ==
    [][GetBestModelStep =>
          LET available_models ==
                  GetAvailableModels(models_order, disabled_until, now).returns
          IN  /\ result'.value # <<>>
              /\ result'.value[1] = models_order[1]
              /\ result'.value[2] = PyBool(Usable(models_order[1]))
              /\ (available_models = <<>> \/ available_models[1] # result'.value[1])
                     <=> ~Usable(models_order[1])]_vars

\* GET /models/best has named a model whose cooldown runs while another model
\* is available
C17_Witness ==
    /\ pc = "done"
    /\ handler = "get_best_model"
    /\ result.value = <<models_order[1], PyBool(FALSE)>>
    /\ now < disabled_until[models_order[1]]
    /\ \E m \in Range(models_order) : disabled_until[m] = None

\* no disabled_until of du lies after time t1 and at or before time t2
NoDeadlinePasses(du, t1, t2) ==
    \A m \in DOMAIN du : ~(du[m] # None /\ t1 < du[m] /\ du[m] <= t2)

\* du after availability queries made up to time t cleared the passed
\* deadlines of the models in S
LazilyCleared(du, S, t) ==
    [m \in DOMAIN du |->
        IF m \in S /\ du[m] # None /\ du[m] <= t THEN None ELSE du[m]]

\* the step that serves GET /models/available
GetAvailableModelsStep ==
    /\ pc = "idle"
    /\ handler' = "get_available_models"

\* C18: a get_available_models call that follows another one with no disable
\* and no reorder in between, and with no deadline passing in between, returns
\* the same ordered sequence: at every later time t such that no deadline
\* lies between the first call and t, and whatever availability queries ran
\* meanwhile, the pool left by the first call answers what the first call
\* answered.
C18_RepeatedQuery ==
    [][GetAvailableModelsStep =>
          \A t \in now'..MaxTime, S \in SUBSET ModelIds :
              NoDeadlinePasses(disabled_until', now', t) =>
                  GetAvailableModels(models_order',
                                     LazilyCleared(disabled_until', S, t),
                                     t).returns
                      = result'.value]_vars

\* GET /models/available has answered at time 0, leaving out a model in
\* cooldown and clearing a passed deadline, and no deadline passes before
\* the clock's next value
C18_Witness ==
    /\ pc = "done"
    /\ handler = "get_available_models"
    /\ now < MaxTime
    /\ NoDeadlinePasses(disabled_until, now, MaxTime)
    /\ \E m \in ModelIds : m \notin Range(result.value)
    /\ \E m \in ModelIds : deadline[m] # None /\ disabled_until[m] = None

\* order after the reorder calls of news ran one at a time, in that order
RECURSIVE ApplyReorders(_, _)
ApplyReorders(order, news) ==
    IF news = <<>> THEN order
    ELSE ApplyReorders(Reorder(order, ModelIds, Head(news)), Tail(news))

\* the permutations of 1..n
Orderings(n) ==
    {p \in [1..n -> 1..n] : \A i, j \in 1..n : i # j => p[i] # p[j]}

\* what models_order can be after the reorder calls made so far, had they
\* run one at a time in some order
SerialOrders ==
    {ApplyReorders(all_models,
                   [k \in 1..Len(reorders) |-> reorders[p[k]].new_order]) :
        p \in Orderings(Len(reorders))}

\* no reorder call is between its read and its write of models_order
NoReorderInFlight == \A t \in Threads : threads[t].pc # "write"

\* C19: registry operations of concurrent requests are serialized: once the
\* concurrent reorder calls are through, models_order is what applying them
\* one at a time in some order gives, and every models_order an
\* available_models read iterates is the startup order or one that a
\* completed reorder wrote.
C19_Serialized ==
    /\ NoReorderInFlight => models_order \in SerialOrders
    /\ \A t \in Threads :
           threads[t].op \in {"get_available_models", "chat_auto"} =>
               threads[t].list \in
                   {all_models} \cup {reorders[k].wrote : k \in 1..Len(reorders)}

\* the part of C19 the code keeps: a read iterates a models_order that was
\* written as a whole
C19_ReadsWholeOrders ==
    \A t \in Threads :
        threads[t].op \in {"get_available_models", "chat_auto"} =>
            threads[t].list \in
                {all_models} \cup {reorders[k].wrote : k \in 1..Len(reorders)}

\* some request is inside is_available of model m, past its None test
InIsAvailable(m) ==
    \E t \in Threads : threads[t].pc \in {"compare", "clear"} /\ Checked(t) = m

\* C20: a cooldown is not lost to a concurrent lazy expiry: once the
\* is_available checks of a model are through, a model whose last disable
\* set a deadline that has not passed holds that deadline in disabled_until,
\* so it is reported unavailable until then.
C20_CooldownNotLost ==
    \A m \in ModelIds :
        (~InIsAvailable(m) /\ deadline[m] # None /\ now < deadline[m])
            => disabled_until[m] = deadline[m]

\* no model occurs twice among the upstream calls of the chat
NoModelCalledTwice ==
    \A i, j \in 1..Len(calls) : i # j => calls[i].model # calls[j].model

\* C21: within one chat call no model is sent to the upstream more than once,
\* whatever reorder calls preceded it, reorders that repeat a known id
\* included: a candidate that was rate-limited and disabled in this call is
\* not tried again in this call.
C21_NoCandidateTwice == NoModelCalledTwice

\* the part of C21 the code keeps: a chat on a candidate list without
\* repeated ids calls no model twice
C21_NoCandidateTwiceWithoutDuplicates ==
    NoDuplicates(models_to_try) => NoModelCalledTwice

\* the step in which thread t issues the upstream call for its next candidate
IssuesCall(t) ==
    /\ threads[t].pc = "trying"
    /\ threads'[t].pc = "waiting"

\* C22: an auto-mode chat issues the upstream call for a candidate only if
\* the model is usable at that moment, also while other requests run: a model
\* that another request disabled after the candidate list was built, and
\* whose cooldown has not passed, is not called.
C22_CalledOnlyIfUsable ==
    [][\A t \in Threads :
          IssuesCall(t) => Usable(threads[t].acc[threads[t].i])]_vars

\* C24: is_available never fails under concurrent checks of one model: when
\* another request clears a passed deadline between a call's None test and
\* its comparison, the call still returns a boolean; no request ends in the
\* TypeError of comparing the clock with None.
C24_IsAvailableNeverFails ==
    \A t \in Threads : threads[t].result.kind # "TypeError"

\* GroqClient.chat is running for the request
ChatRunning ==
    /\ handler \in {"chat_auto", "chat_manual"}
    /\ pc \in {"trying", "waiting"}

\* the request's chat is over
ChatEnded ==
    /\ handler \in {"chat_auto", "chat_manual"}
    /\ pc = "done"

\* every upstream call of the chat came back with a response
EveryCallReturned ==
    \A i \in 1..Len(calls) : calls[i].resp.kind = "response"

\* the chat ended in Success, or in the dispatch failure of a hard failure
\* or of an exhausted or empty candidate list
TerminalOutcome == result.kind \in {"return", "HTTPException"}

\* the upstream calls of the chat that have not come back
InFlight == {i \in 1..Len(calls) : calls[i].resp = NoResponse}

\* the chat made no more upstream calls than it has candidates, one after
\* the other
CallsWithinBounds ==
    /\ Len(calls) <= Len(models_to_try)
    /\ Cardinality(InFlight) <= 1
    /\ InFlight # {} => pc = "waiting" /\ InFlight = {Len(calls)}

\* C23: every chat call, given that each upstream call returns, eventually
\* reaches exactly one terminal outcome (Success, HardFail, or
\* Exhausted/AllModelsRateLimited), after at most as many upstream calls as
\* its candidate list has entries, made one at a time.
C23_ChatTerminates ==
    /\ [](ChatEnded /\ EveryCallReturned => TerminalOutcome)
    /\ []CallsWithinBounds
    /\ ChatRunning ~> ChatEnded

\* the part of C23 the code keeps: every chat ends, after at most one upstream
\* call per candidate, made one at a time
C23_ChatEndsWithinBounds ==
    /\ []CallsWithinBounds
    /\ ChatRunning ~> ChatEnded

\* a step of an endpoint that asks is_available: GET /models/best, GET
\* /models/available, GET /models/best-available, the start of an auto chat
AvailabilityStep ==
    /\ pc = "idle"
    /\ handler' \in {"get_best_model", "get_available_models",
                     "get_best_available_model", "chat_auto"}

\* C25: ordering and cooldowns are independent: reorder leaves every
\* disabled_until as it is; models_order changes in reorder only, so disable,
\* is_available and the chat calls leave it as it is; a disabled_until is set
\* only by the disable of a rate-limited call, for the model called, and is
\* cleared only by an is_available check at or after its deadline.
C25_OrderAndCooldownIndependent ==
    [][/\ ReorderStep => disabled_until' = disabled_until
       /\ models_order' # models_order => ReorderStep
       /\ \A m \in ModelIds :
              disabled_until'[m] # disabled_until[m] =>
                  IF disabled_until'[m] # None
                  THEN DisableStep /\ m = Last(calls').model
                  ELSE AvailabilityStep /\ disabled_until[m] <= now]_vars

\* a reorder has changed the order while one model is in cooldown and the
\* passed deadline of another has been cleared
C25_Witness ==
    /\ pc = "done"
    /\ handler = "reorder_models"
    /\ models_order # all_models
    /\ \E m \in ModelIds :
           /\ disabled_until[m] # None
           /\ disabled_until[m] = deadline[m]
           /\ now < disabled_until[m]
    /\ \E m \in ModelIds : deadline[m] # None /\ disabled_until[m] = None

====
